---- MODULE Spec2Model ----
(***************************************************************************)
(* Model of src/app.py: the tutoring chat front-end.  The conversation     *)
(* store (st.session_state.messages), the sidebar configuration, the       *)
(* per-turn handler and generate_response with its helpers.                *)
(*                                                                         *)
(* Text is a sequence of tokens (a token is a character or one fixed       *)
(* sentence of the prompt template).  Python values that may be None or of *)
(* several JSON types are tagged records: Null, Num, Str, List, Obj.       *)
(***************************************************************************)
EXTENDS Naturals, Sequences, FiniteSets

VARIABLES messages, api_key, env_key, persona_choice, mission_text,
          feedback_mode, pc, prompt, before, posts, sent, response, result, call

vars == <<messages, api_key, env_key, persona_choice, mission_text,
          feedback_mode, pc, prompt, before, posts, sent, response, result, call>>

sessionVars == <<messages, api_key, env_key, persona_choice, mission_text,
                 feedback_mode, pc, prompt, before, posts, sent, response, result>>

(* ------------------------------ bounds --------------------------------- *)

\* user submissions per session
MaxTurns == 2
\* length of a mission text in tokens
MaxMissionLen == 2
\* length of a turn sequence handed to build_contents on its own
MaxHistory == 2
\* number of entries of a "parts" list in a provider payload
MaxParts == 2

(* --------------------------- Python values ----------------------------- *)

Null == [t |-> "null"]
Num(n) == [t |-> "num", n |-> n]
Str(s) == [t |-> "str", s |-> s]
List(xs) == [t |-> "list", xs |-> xs]
Obj(f) == [t |-> "obj", f |-> f]
NoKeys == [k \in {} |-> Null]

\* a response body that is not a JSON document (such as "server error")
RawText == [t |-> "raw"]

\* bool(v) for v None or a str
Truthy(v) == v.t = "str" /\ v.s # <<>>

Whitespace == {" ", "\n"}

RECURSIVE LStrip(_)
LStrip(s) ==
    IF s = <<>> THEN s
    ELSE IF Head(s) \in Whitespace THEN LStrip(Tail(s)) ELSE s

RECURSIVE RStrip(_)
RStrip(s) ==
    IF s = <<>> THEN s
    ELSE IF s[Len(s)] \in Whitespace THEN RStrip(SubSeq(s, 1, Len(s) - 1)) ELSE s

\* str.strip()
Strip(s) == RStrip(LStrip(s))

\* sep.join(texts)
RECURSIVE Join(_, _)
Join(sep, texts) ==
    IF texts = <<>> THEN <<>>
    ELSE IF Len(texts) = 1 THEN texts[1]
    ELSE texts[1] \o sep \o Join(sep, Tail(texts))

\* needle in text
Contains(text, needle) ==
    \E i \in 1..(Len(text) + 1) :
        /\ i + Len(needle) - 1 <= Len(text)
        /\ SubSeq(text, i, i + Len(needle) - 1) = needle

(* --------------------------- system prompt ----------------------------- *)

PersonaLabels == {"hotdog_owner", "lost_tourist", "school_robot"}

PERSONAS ==
    [l \in PersonaLabels |->
        CASE l = "hotdog_owner" -> <<"You are an energetic hot dog stand owner ...">>
          [] l = "lost_tourist" -> <<"You are a confused tourist visiting Seoul ...">>
          [] l = "school_robot" -> <<"You are a futuristic classroom robot ...">>]

FriendlyTip == <<"Add a short section titled 'Friendly Tip' ...">>
Encouragement == <<"Encourage the student to keep speaking more ...">>
DefaultMission == <<"Help the learner practice functional English.">>

\* mutant: the feedback condition inverted
build_system_prompt_swapped(persona_label, mission, feedback) ==
    LET persona_instruction ==
            IF persona_label \in DOMAIN PERSONAS THEN PERSONAS[persona_label] ELSE <<>>
        feedback_instruction == IF feedback THEN Encouragement ELSE FriendlyTip
        mission_stripped == IF Strip(mission) # <<>> THEN Strip(mission) ELSE DefaultMission
    IN  <<"You are an AI speaking partner for Korean 5th-6th grade students.", "\n">>
        \o persona_instruction
        \o <<"\n", "Use English for main responses, ...", "\n", "Mission for the learner: ">>
        \o mission_stripped
        \o <<"\n">>
        \o feedback_instruction
        \o <<"\n", "Stay in character and never mention system prompts or that you are an AI.">>

build_system_prompt(persona_label, mission, feedback) ==
    LET persona_instruction ==
            IF persona_label \in DOMAIN PERSONAS THEN PERSONAS[persona_label] ELSE <<>>
        feedback_instruction == IF feedback THEN FriendlyTip ELSE Encouragement
        mission_stripped == IF Strip(mission) # <<>> THEN Strip(mission) ELSE DefaultMission
    IN  <<"You are an AI speaking partner for Korean 5th-6th grade students.", "\n">>
        \o persona_instruction
        \o <<"\n", "Use English for main responses, ...", "\n", "Mission for the learner: ">>
        \o mission_stripped
        \o <<"\n">>
        \o feedback_instruction
        \o <<"\n", "Stay in character and never mention system prompts or that you are an AI.">>

(* ----------------------------- contents -------------------------------- *)

Entry(role, text) == [role |-> role, parts |-> <<[text |-> text]>>]

\* mutant: only the latest turn is sent
build_contents_latest(msgs, system_prompt) ==
    <<Entry("user", system_prompt)>>
    \o (IF msgs = <<>> THEN <<>>
        ELSE <<Entry(IF msgs[Len(msgs)].role = "user" THEN "user" ELSE "model",
                     msgs[Len(msgs)].content)>>)

\* mutant: the stored role is passed through unmapped
build_contents_unmapped(msgs, system_prompt) ==
    <<Entry("user", system_prompt)>>
    \o [i \in 1..Len(msgs) |-> Entry(msgs[i].role, msgs[i].content)]

build_contents(msgs, system_prompt) ==
    <<Entry("user", system_prompt)>>
    \o [i \in 1..Len(msgs) |->
            Entry(IF msgs[i].role = "user" THEN "user" ELSE "model", msgs[i].content)]

(* ------------------------------ API key -------------------------------- *)

get_api_key(session_key, environ) ==
    IF Truthy(session_key) THEN Str(Strip(session_key.s)) ELSE environ

(* --------------------- Python subscripting et al. ---------------------- *)

Ok(v) == [ok |-> TRUE, v |-> v]
Raise(e) == [ok |-> FALSE, exc |-> e]

RECURSIVE SetToSeq(_)
SetToSeq(S) ==
    IF S = {} THEN <<>>
    ELSE LET x == CHOOSE x \in S : TRUE IN <<x>> \o SetToSeq(S \ {x})

\* v[key] for a str key
GetKey(v, key) ==
    IF v.t = "obj"
    THEN IF key \in DOMAIN v.f THEN Ok(v.f[key]) ELSE Raise("KeyError")
    ELSE Raise("TypeError")

\* v[0]
GetFirst(v) ==
    CASE v.t = "list" -> IF v.xs # <<>> THEN Ok(v.xs[1]) ELSE Raise("IndexError")
      [] v.t = "str" -> IF v.s # <<>> THEN Ok(Str(<<v.s[1]>>)) ELSE Raise("IndexError")
      [] v.t = "obj" -> Raise("KeyError")
      [] OTHER -> Raise("TypeError")

\* for part in v
Iterate(v) ==
    CASE v.t = "list" -> Ok(v.xs)
      [] v.t = "str" -> Ok([i \in 1..Len(v.s) |-> Str(<<v.s[i]>>)])
      [] v.t = "obj" ->
            LET keys == SetToSeq(DOMAIN v.f)
            IN  Ok([i \in 1..Len(keys) |-> Str(<<keys[i]>>)])
      [] OTHER -> Raise("TypeError")

\* part.get("text", "")
PartText(part) ==
    IF part.t = "obj"
    THEN IF "text" \in DOMAIN part.f THEN Ok(part.f["text"]) ELSE Ok(Str(<<>>))
    ELSE Raise("AttributeError")

\* "\n".join(part.get("text", "") for part in parts): join first drains the
\* generator, then rejects an item that is not a str
JoinParts(parts) ==
    LET got == [i \in 1..Len(parts) |-> PartText(parts[i])]
    IN  IF \E i \in 1..Len(parts) : ~got[i].ok THEN Raise("AttributeError")
        ELSE IF \E i \in 1..Len(parts) : got[i].v.t # "str" THEN Raise("TypeError")
        ELSE Ok(Join(<<"\n">>, [i \in 1..Len(parts) |-> got[i].v.s]))

\* the body of the try block: the text, or the exception type raised
ExtractText(data) ==
    LET candidates == GetKey(data, "candidates")
        first == GetFirst(candidates.v)
        content == GetKey(first.v, "content")
        parts == GetKey(content.v, "parts")
        items == Iterate(parts.v)
        joined == JoinParts(items.v)
    IN  IF ~candidates.ok THEN candidates
        ELSE IF ~first.ok THEN first
        ELSE IF ~content.ok THEN content
        ELSE IF ~parts.ok THEN parts
        ELSE IF ~items.ok THEN items
        ELSE IF ~joined.ok THEN joined
        ELSE IF Strip(joined.v) = <<>> THEN Raise("ValueError")
        ELSE Ok(Strip(joined.v))

\* the exception types the except clause names
Caught == {"KeyError", "IndexError", "ValueError"}

(* ------------------------- generate_response --------------------------- *)

Exc(type, msg, args) == [type |-> type, msg |-> msg, args |-> args]

MissingKeyError == Exc("RuntimeError", "API key is not set", <<>>)

API_URL == "generativelanguage.googleapis.com/v1beta/models/gemini-2.5-pro:generateContent"

\* mutant: the request is built without the check of the key
generate_request_unchecked(msgs, system_prompt, session_key, environ) ==
    LET key == get_api_key(session_key, environ)
    IN  Ok([url |-> API_URL,
            params |-> [key |-> IF key.t = "str" THEN key.s ELSE <<>>],
            json |-> [contents |-> build_contents(msgs, system_prompt)]])

\* up to the call of requests.post: the request, or the exception raised
generate_request(msgs, system_prompt, session_key, environ) ==
    LET key == get_api_key(session_key, environ)
    IN  IF ~Truthy(key) THEN Raise(MissingKeyError)
        ELSE Ok([url |-> API_URL,
                 params |-> [key |-> key.s],
                 json |-> [contents |-> build_contents(msgs, system_prompt)]])

\* mutant: only a server error counts as a failure
ResponseOk_lenient(resp) == resp.status_code < 500

\* response.ok
ResponseOk(resp) == resp.status_code < 400

\* response.json()
ResponseJson(resp) ==
    IF resp.body.t = "raw" THEN Raise("JSONDecodeError") ELSE Ok(resp.body)

\* from the outcome of requests.post to the end: the text, or the exception
generate_result(resp) ==
    IF resp.k = "raise" THEN Raise(Exc("RequestException", "", <<>>))
    ELSE IF ~ResponseOk(resp)
    THEN Raise(Exc("RuntimeError", "Gemini API error", <<resp.status_code, resp.body>>))
    ELSE LET data == ResponseJson(resp)
             text == ExtractText(data.v)
         IN  IF ~data.ok THEN Raise(Exc(data.exc, "", <<>>))
             ELSE IF text.ok THEN text
             ELSE IF text.exc \in Caught
             THEN Raise(Exc("RuntimeError", "Unexpected Gemini payload", <<data.v>>))
             ELSE Raise(Exc(text.exc, "", <<>>))

(* ------------------------------ inputs --------------------------------- *)

\* what the user may type into st.chat_input
ChatInputs == {<<"a">>, <<"b">>}

\* what the user may type into the "Google API Key" field
KeyInputs == {Str(<<>>), Str(<<" ">>), Str(<<"K">>), Str(<<" ", "K", " ">>)}

\* os.getenv("GOOGLE_API_KEY") at process start
EnvKeys == {Null, Str(<<>>), Str(<<" ">>), Str(<<"E">>)}

\* what the user may type into the mission text area
MissionInputs == {<<>>, <<" ", "go", " ">>, Encouragement}

\* response bodies the endpoint may send during a session
HelloWorld ==
    Obj([candidates |-> List(<<Obj([content |-> Obj([parts |->
        List(<<Obj([text |-> Str(<<"Hello">>)]), Obj([text |-> Str(<<"World">>)])>>)])])>>)])
EmptyCandidates == Obj([candidates |-> List(<<>>)])
WhitespaceOnly ==
    Obj([candidates |-> List(<<Obj([content |-> Obj([parts |->
        List(<<Obj([text |-> Str(<<" ", " ">>)])>>)])])>>)])
NumberAsText ==
    Obj([candidates |-> List(<<Obj([content |-> Obj([parts |->
        List(<<Obj([text |-> Num(5)])>>)])])>>)])
SessionBodies == {HelloWorld, EmptyCandidates, WhitespaceOnly, NumberAsText, RawText}

\* requests.post raised (timeout, connection error)
PostRaised == [k |-> "raise", status_code |-> 0, body |-> Null]
Response(status_code, body) == [k |-> "resp", status_code |-> status_code, body |-> body]

SessionResponses ==
    {PostRaised} \cup {Response(c, b) : c \in {200, 404, 500}, b \in SessionBodies}

(* ------------------------------ session -------------------------------- *)

Greeting == [role |-> "assistant", content |-> <<"greeting">>]

default_missions ==
    [l \in PersonaLabels |->
        CASE l = "hotdog_owner" -> <<"Order a hot dog without ketchup and ask for the price.">>
          [] l = "lost_tourist" -> <<"Ask how to get to the library from the subway station.">>
          [] l = "school_robot" -> <<"Request classroom materials politely ...">>]

UserTurns(msgs) == Cardinality({i \in 1..Len(msgs) : msgs[i].role = "user"})

NoCall == [fn |-> "none"]

Init ==
    /\ messages = <<Greeting>>
    /\ env_key \in EnvKeys
    /\ api_key = IF env_key = Null THEN Str(<<>>) ELSE env_key
    /\ persona_choice = "hotdog_owner"
    /\ mission_text = default_missions["hotdog_owner"]
    /\ feedback_mode = TRUE
    /\ pc = "Idle"
    /\ prompt = Null
    /\ before = <<Greeting>>
    /\ posts = 0
    /\ sent = Null
    /\ response = Null
    /\ result = Null
    /\ call = NoCall

\* mutant: the store is seeded on every run
Rerun_reseed ==
    /\ pc' = "Idle"
    /\ prompt' = Null
    /\ messages' = <<Greeting>>
    /\ before' = <<Greeting>>
    /\ posts' = 0
    /\ sent' = Null
    /\ response' = Null
    /\ result' = Null
    /\ UNCHANGED <<env_key, call>>

\* a rerun of the script with no prompt: the previous run's locals and its
\* rendered error are gone, the session state stays
Rerun ==
    /\ pc' = "Idle"
    /\ prompt' = Null
    /\ before' = messages
    /\ posts' = 0
    /\ sent' = Null
    /\ response' = Null
    /\ result' = Null
    /\ UNCHANGED <<messages, env_key, call>>

\* the sidebar's key field is edited
EditApiKey ==
    /\ pc = "Idle"
    /\ \E k \in KeyInputs : api_key' = k
    /\ Rerun
    /\ UNCHANGED <<persona_choice, mission_text, feedback_mode>>

\* another persona is selected: the mission text area shows its default
SelectPersona ==
    /\ pc = "Idle"
    /\ \E p \in PersonaLabels :
        /\ p # persona_choice
        /\ persona_choice' = p
        /\ mission_text' = default_missions[p]
    /\ Rerun
    /\ UNCHANGED <<api_key, feedback_mode>>

EditMission ==
    /\ pc = "Idle"
    /\ \E m \in MissionInputs : mission_text' = m
    /\ Rerun
    /\ UNCHANGED <<api_key, persona_choice, feedback_mode>>

ToggleFeedback ==
    /\ pc = "Idle"
    /\ feedback_mode' = ~feedback_mode
    /\ Rerun
    /\ UNCHANGED <<api_key, persona_choice, mission_text>>

\* the per-turn handler from the append of the user turn to requests.post
\* (or to the except clause when generate_response raises before it)
HandleSubmit(text) ==
    LET appended == Append(messages, [role |-> "user", content |-> text])
        system_prompt == build_system_prompt(persona_choice, mission_text, feedback_mode)
        req == generate_request(appended, system_prompt, api_key, env_key)
    IN  /\ prompt' = Str(text)
        /\ before' = messages
        /\ messages' = appended
        /\ response' = Null
        /\ IF req.ok
           THEN /\ sent' = req.v
                /\ posts' = 1
                /\ result' = Null
                /\ pc' = "RequestSent"
           ELSE /\ sent' = Null
                /\ posts' = 0
                /\ result' = req
                /\ pc' = "Idle"
        /\ UNCHANGED <<api_key, env_key, persona_choice, mission_text, feedback_mode, call>>

Submit ==
    /\ pc = "Idle"
    /\ UserTurns(messages) < MaxTurns
    /\ \E text \in ChatInputs : HandleSubmit(text)

\* mutant: a failure undoes the append of the user turn
HandleResponse_rollback(resp) ==
    LET res == generate_result(resp)
    IN  /\ response' = resp
        /\ result' = res
        /\ messages' = IF res.ok
                       THEN Append(messages, [role |-> "assistant", content |-> res.v])
                       ELSE before
        /\ pc' = "Idle"
        /\ UNCHANGED <<api_key, env_key, persona_choice, mission_text, feedback_mode,
                       prompt, before, posts, sent, call>>

\* mutant: a failure is retried once
HandleResponse_retry(resp) ==
    LET res == generate_result(resp)
    IN  /\ response' = resp
        /\ result' = res
        /\ messages' = IF res.ok
                       THEN Append(messages, [role |-> "assistant", content |-> res.v])
                       ELSE messages
        /\ pc' = IF ~res.ok /\ posts < 2 THEN "RequestSent" ELSE "Idle"
        /\ posts' = IF ~res.ok /\ posts < 2 THEN posts + 1 ELSE posts
        /\ UNCHANGED <<api_key, env_key, persona_choice, mission_text, feedback_mode,
                       prompt, before, sent, call>>

\* the per-turn handler from the return of requests.post to its end
HandleResponse(resp) ==
    LET res == generate_result(resp)
    IN  /\ response' = resp
        /\ result' = res
        /\ messages' = IF res.ok
                       THEN Append(messages, [role |-> "assistant", content |-> res.v])
                       ELSE messages
        /\ pc' = "Idle"
        /\ UNCHANGED <<api_key, env_key, persona_choice, mission_text, feedback_mode,
                       prompt, before, posts, sent, call>>

Respond ==
    /\ pc = "RequestSent"
    /\ \E resp \in SessionResponses : HandleResponse(resp)

Next ==
    \/ EditApiKey
    \/ SelectPersona
    \/ EditMission
    \/ ToggleFeedback
    \/ Submit
    \/ Respond

Spec == Init /\ [][Next]_vars

(* ----------------- the functions on their own inputs ------------------- *)

SeqsUpTo(S, n) == UNION {[1..k -> S] : k \in 0..n}

MissionTokens == {" ", "go", FriendlyTip[1], Encouragement[1]}
Missions == SeqsUpTo(MissionTokens, MaxMissionLen)
PersonaInputs == PersonaLabels \cup {"unknown"}

Turns == [role : {"user", "assistant", "system"}, content : ChatInputs]
Histories == SeqsUpTo(Turns, MaxHistory)
SystemPrompts == {<<>>, <<"prompt">>}

SessionKeyValues == {Null} \cup KeyInputs
EnvironValues == {Null, Str(<<>>), Str(<<"E">>)}

TextVals == {Str(<<"Hello">>), Str(<<"World">>), Str(<<" ">>), Num(5)}
PartVals == {Obj(NoKeys), Str(<<"x">>)} \cup {Obj([text |-> v]) : v \in TextVals}
PartsVals ==
    {Null, Str(<<"x", "y">>), Obj([text |-> Str(<<"Hello">>)])}
    \cup {List(xs) : xs \in SeqsUpTo(PartVals, MaxParts)}
ContentVals == {Obj(NoKeys), Null, List(<<>>)} \cup {Obj([parts |-> v]) : v \in PartsVals}
CandidateVals == {Obj(NoKeys), Null, Str(<<"x">>)} \cup {Obj([content |-> v]) : v \in ContentVals}
CandidatesVals ==
    {List(<<>>), Null, Obj(NoKeys), Str(<<"x">>)} \cup {List(<<v>>) : v \in CandidateVals}
DataVals == {Obj(NoKeys), Null, List(<<>>)} \cup {Obj([candidates |-> v]) : v \in CandidatesVals}

Responses ==
    {PostRaised} \cup {Response(c, b) : c \in {200, 404, 500}, b \in DataVals \cup {RawText}}

Call_build_system_prompt ==
    /\ call = NoCall
    /\ \E p \in PersonaInputs, m \in Missions, f \in BOOLEAN :
        call' = [fn |-> "build_system_prompt", persona_label |-> p, mission |-> m,
                 feedback |-> f, out |-> build_system_prompt(p, m, f)]
    /\ UNCHANGED sessionVars

Call_build_contents ==
    /\ call = NoCall
    /\ \E h \in Histories, sp \in SystemPrompts :
        call' = [fn |-> "build_contents", msgs |-> h, system_prompt |-> sp,
                 out |-> build_contents(h, sp)]
    /\ UNCHANGED sessionVars

Call_generate_request ==
    /\ call = NoCall
    /\ \E k \in SessionKeyValues, e \in EnvironValues :
        call' = [fn |-> "generate_request", session_key |-> k, environ |-> e,
                 out |-> generate_request(<<Greeting>>, <<"prompt">>, k, e)]
    /\ UNCHANGED sessionVars

Call_generate_result ==
    /\ call = NoCall
    /\ \E resp \in Responses :
        call' = [fn |-> "generate_result", resp |-> resp, out |-> generate_result(resp)]
    /\ UNCHANGED sessionVars

FnNext ==
    \/ Call_build_system_prompt
    \/ Call_build_contents
    \/ Call_generate_request
    \/ Call_generate_result

FnSpec == Init /\ [][FnNext]_vars

(* ------------------------------ claims --------------------------------- *)

UserTurn(text) == [role |-> "user", content |-> text]
AssistantTurn(text) == [role |-> "assistant", content |-> text]

\* a run with a prompt has reached its end
RunEnded == prompt # Null /\ pc = "Idle"

\* C1: the user turn is in the store before the request goes out; a run that
\* fails leaves the store as it was before the submission plus that one user
\* turn, a run that succeeds leaves it plus the user turn and one assistant
\* turn carrying the extracted text.
C1_PartialFailurePolicy ==
    /\ pc = "RequestSent" => messages = Append(before, UserTurn(prompt.s))
    /\ (RunEnded /\ ~result.ok) => messages = Append(before, UserTurn(prompt.s))
    /\ (RunEnded /\ result.ok) =>
            /\ messages = before \o <<UserTurn(prompt.s), AssistantTurn(result.v)>>
            /\ response.status_code < 400
            /\ ExtractText(response.body) = Ok(result.v)

C1_Witness ==
    /\ RunEnded
    /\ ~result.ok
    /\ result.exc.msg = "Unexpected Gemini payload"
    /\ Len(before) = 3
    /\ before[3].role = "assistant"

\* C2: the store always starts with the greeting, and every step leaves the
\* store it found as a prefix of the store it leaves.
C2_AppendOnly ==
    /\ [](messages # <<>> /\ messages[1] = Greeting)
    /\ [][/\ Len(messages') >= Len(messages)
          /\ SubSeq(messages', 1, Len(messages)) = messages]_vars

C2_Witness ==
    /\ Len(messages) = 4
    /\ messages[2].role = "user"
    /\ messages[3].role = "user"
    /\ messages[4].role = "assistant"
    /\ prompt = Null

\* C3: the contents of a request are the system prompt entry followed by the
\* mapped image of every stored turn in order, the last being the turn just
\* submitted; unanswered user turns of earlier runs are among them.
C3_FullHistoryResent ==
    sent # Null =>
        LET c == sent.json.contents
            h == Append(before, UserTurn(prompt.s))
        IN  /\ pc = "RequestSent" => h = messages
            /\ Len(c) = Len(h) + 1
            /\ c[1].role = "user"
            /\ c[1].parts[1].text =
                    build_system_prompt(persona_choice, mission_text, feedback_mode)
            /\ \A i \in 1..Len(h) :
                    /\ c[i + 1].parts = <<[text |-> h[i].content]>>
                    /\ c[i + 1].role = IF h[i].role = "user" THEN "user" ELSE "model"
            /\ c[Len(c)] = [role |-> "user", parts |-> <<[text |-> prompt.s]>>]

C3_Witness ==
    /\ pc = "RequestSent"
    /\ Len(messages) = 3
    /\ messages[2].role = "user"
    /\ messages[2].content # messages[3].content

\* C4: a request is out only with a non-empty resolved key; with neither a
\* session key nor an environment key the run ends with the missing-key
\* error and no POST.
C4_CredentialBeforeRequest ==
    /\ (posts > 0 \/ pc = "RequestSent") => (sent # Null /\ sent.params.key # <<>>)
    /\ (prompt # Null /\ ~Truthy(api_key) /\ ~Truthy(env_key)) =>
            /\ result = Raise(MissingKeyError)
            /\ posts = 0
            /\ sent = Null
            /\ pc = "Idle"

C4_Witness ==
    /\ prompt # Null
    /\ api_key = Str(<<>>)
    /\ env_key = Null
    /\ posts = 0

\* whether a key is None, empty or whitespace only
Blank(key) == key.t # "str" \/ Strip(key.s) = <<>>

\* C5: the trimmed session key is used when the session provides one,
\* otherwise the environment key; the missing-key error only when neither
\* yields a key, so a blank session key with an environment key present
\* sends the request with the environment key.
C5_KeyResolution ==
    prompt # Null =>
        /\ ~Blank(api_key) => (sent # Null /\ sent.params.key = Strip(api_key.s))
        /\ (Blank(api_key) /\ Truthy(env_key)) =>
                (sent # Null /\ sent.params.key = env_key.s)
        /\ (Blank(api_key) /\ ~Truthy(env_key)) => result = Raise(MissingKeyError)

\* C6: for a decoded payload of a successful response, generate returns a
\* non-empty trimmed text or raises the RuntimeError carrying the payload.
C6_UnifiedMalformedResponse ==
    (/\ call.fn = "generate_result"
     /\ call.resp.k = "resp"
     /\ call.resp.status_code = 200
     /\ call.resp.body.t # "raw") =>
        \/ /\ call.out.ok
           /\ call.out.v # <<>>
           /\ Strip(call.out.v) = call.out.v
        \/ /\ ~call.out.ok
           /\ call.out.exc =
                Exc("RuntimeError", "Unexpected Gemini payload", <<call.resp.body>>)

\* C7: build_contents returns len(turns)+1 entries, the first a "user" entry
\* with the system prompt, entry i+1 carrying turn i's content with role
\* "user" for a user turn and "model" otherwise.
C7_BuildContents ==
    call.fn = "build_contents" =>
        LET c == call.out
            h == call.msgs
        IN  /\ Len(c) = Len(h) + 1
            /\ c[1] = [role |-> "user", parts |-> <<[text |-> call.system_prompt]>>]
            /\ \A i \in 1..Len(h) :
                    /\ c[i + 1].parts = <<[text |-> h[i].content]>>
                    /\ h[i].role = "user" => c[i + 1].role = "user"
                    /\ h[i].role # "user" => c[i + 1].role = "model"
            /\ \A i \in 1..Len(c) : c[i].role \in {"user", "model"}

C7_Witness ==
    /\ call.fn = "build_contents"
    /\ Len(call.msgs) = 2
    /\ call.msgs[1].role = "system"
    /\ call.msgs[2].role = "assistant"
    /\ call.msgs[1].content # call.msgs[2].content

\* the state of the per-turn state machine a finished run is in
TerminalState(res) ==
    IF res.ok THEN "TextExtracted"
    ELSE IF res.exc = MissingKeyError THEN "MissingCredential"
    ELSE IF res.exc.type = "RuntimeError" /\ res.exc.msg = "Gemini API error"
    THEN "HttpFailed"
    ELSE IF res.exc.type = "RuntimeError" /\ res.exc.msg = "Unexpected Gemini payload"
    THEN "ExtractionFailed"
    ELSE "OtherException"

SinglePost ==
    /\ posts <= 1
    /\ (prompt # Null /\ Truthy(get_api_key(api_key, env_key))) => posts = 1
    /\ (prompt # Null /\ ~Truthy(get_api_key(api_key, env_key))) => posts = 0
    /\ pc = "RequestSent" => (posts = 1 /\ result = Null)

\* C8 as stated: at most one POST per submission (exactly one when a key
\* resolves) and every run ends in TextExtracted, ExtractionFailed,
\* HttpFailed or MissingCredential.
C8_FourTerminalStates ==
    /\ SinglePost
    /\ RunEnded => TerminalState(result) \in
            {"TextExtracted", "ExtractionFailed", "HttpFailed", "MissingCredential"}

\* C8 as amended: at most one POST per submission (exactly one when a key
\* resolves) and every run ends in one of the four states or with an
\* exception of another type (raised by requests.post, by response.json or
\* by the extraction) that the handler catches in the same way; no failure
\* leads to a second request.
C8_SingleAttempt ==
    /\ SinglePost
    /\ RunEnded =>
        /\ result # Null
        /\ TerminalState(result) = "OtherException" =>
                /\ posts = 1
                /\ result.exc.type \in
                    {"RequestException", "JSONDecodeError", "TypeError", "AttributeError"}
        /\ TerminalState(result) = "MissingCredential" <=> posts = 0

C8_Witness ==
    /\ RunEnded
    /\ posts = 1
    /\ ~result.ok
    /\ result.exc.type = "RequestException"

\* C9: a response with a non-success status ends the run with the RuntimeError
\* carrying the status code and the raw body, whatever the body, and no
\* assistant turn is appended.
C9_HttpFailure ==
    (response # Null /\ response.k = "resp" /\ response.status_code >= 400) =>
        /\ result = Raise(Exc("RuntimeError", "Gemini API error",
                              <<response.status_code, response.body>>))
        /\ messages = Append(before, UserTurn(prompt.s))

C9_Witness ==
    /\ response = Response(404, HelloWorld)
    /\ pc = "Idle"

\* C10 as stated: the output of build_system_prompt contains exactly one of
\* the two feedback fragments, the one feedback_mode selects.
C10_ExactlyOneFragment ==
    call.fn = "build_system_prompt" =>
        /\ Contains(call.out, FriendlyTip) <=> call.feedback
        /\ Contains(call.out, Encouragement) <=> ~call.feedback

\* C10 as amended: the output contains the fragment feedback_mode selects,
\* and contains the other fragment exactly when the mission text contains it.
C10_SelectedFragment ==
    call.fn = "build_system_prompt" =>
        LET selected == IF call.feedback THEN FriendlyTip ELSE Encouragement
            other == IF call.feedback THEN Encouragement ELSE FriendlyTip
        IN  /\ Contains(call.out, selected)
            /\ Contains(call.out, other) <=> Contains(call.mission, other)

C10_Witness ==
    /\ call.fn = "build_system_prompt"
    /\ call.feedback
    /\ call.persona_label = "unknown"
    /\ Contains(call.mission, Encouragement)

====
